---- MODULE Spec2Model ----
(***************************************************************************)
(* The credit ledger of the company-verification API: the JSON key store   *)
(* (src/api_keys.py), the authorization gate and the payment provider      *)
(* bridge (src/payment.py) and the HTTP handlers built on them             *)
(* (src/main.py).                                                          *)
(*                                                                         *)
(* Strings are sequences of atoms; the literals "Bearer " and "cvapi_"     *)
(* are one atom each.  The store is the whole JSON document of             *)
(* api_keys_db.json.  No handler takes a lock, so a request is cut at      *)
(* every access to the file: between two accesses of one request the       *)
(* accesses of other requests (other workers on the same file) may fall.   *)
(* Spec allows every such interleaving.  SeqSpec runs one request at a     *)
(* time, which is what a single event loop does, since no handler awaits   *)
(* between its accesses to the file.  ChargeSpec is Spec with only the     *)
(* authorize-and-charge requests.  In these three the file accesses do not *)
(* fail and a write lands whole.  FaultSpec is Spec with _read_db and      *)
(* _write_db failing at any call, a failed write leaving the truncated     *)
(* file that open(db_file, 'w') makes before json.dump fills it.           *)
(***************************************************************************)
EXTENDS Integers, Sequences, FiniteSets, TLC

VARIABLES
    db,              \* contents of api_keys_db.json: [keys |-> digest -> record],
                     \* or TruncatedFile after a failed write
    API_SECRET_KEY,  \* os.getenv("API_SECRET_KEY"): None when not configured
    proc,            \* the requests in flight, one record per worker slot
    response,        \* per slot, the last response sent from it
    created,         \* history: every account a create_key call has written
    debited,         \* history: per digest, the sum of the granted amounts
    served           \* history: the number of requests received so far

vars == <<db, API_SECRET_KEY, proc, response, created, debited, served>>

-----------------------------------------------------------------------------
(* Bounds of the model *)

NumProcs == 2
NumTokens == 2
MaxTime == 0
MaxBatch == 2
MaxRequests == 2

Procs == 1..NumProcs

-----------------------------------------------------------------------------
(* Values *)

\* Python's None where a dict or a number is expected, and where a string is
None == [none |-> TRUE]

NoneStr == <<"<None>">>

BEARER == "Bearer "

KEY_PREFIX == "cvapi_"

VERIFY_COST == 10

BATCH_MAX_ITEMS == 10

Min(a, b) == IF a < b THEN a ELSE b

startswith(s, prefix) ==
    /\ Len(s) >= Len(prefix)
    /\ SubSeq(s, 1, Len(prefix)) = prefix

\* str.replace(old, ""): every occurrence of the atom is removed
replace(s, old) == SelectSeq(s, LAMBDA a : a # old)

RECURSIVE lstrip(_)
lstrip(s) == IF s # <<>> /\ Head(s) = " " THEN lstrip(Tail(s)) ELSE s

RECURSIVE rstrip(_)
rstrip(s) ==
    IF s # <<>> /\ s[Len(s)] = " " THEN rstrip(SubSeq(s, 1, Len(s) - 1)) ELSE s

strip(s) == rstrip(lstrip(s))

\* datetime.utcnow().isoformat(): the clock value rendered as a string
isoformat(t) == <<"T", ToString(t)>>

DigitValue(c) ==
    CASE c = "0" -> 0 [] c = "1" -> 1 [] c = "2" -> 2 [] c = "3" -> 3
      [] c = "4" -> 4 [] c = "5" -> 5 [] c = "6" -> 6 [] c = "7" -> 7
      [] c = "8" -> 8 [] c = "9" -> 9

\* int(): a decimal numeral, read left to right
RECURSIVE int(_)
int(s) ==
    IF s = <<>> THEN 0
    ELSE 10 * int(SubSeq(s, 1, Len(s) - 1)) + DigitValue(s[Len(s)])

-----------------------------------------------------------------------------
(* Key store: src/api_keys.py *)

\* secrets.token_urlsafe(32): the tokens the generator can draw
RandomTokens == {ToString(i) : i \in 1..NumTokens}

\* datetime.utcnow(): the readings of the wall clock
Times == 0..MaxTime

generate_key(token) == <<KEY_PREFIX, token>>

hash_key(api_key) == <<"sha256">> \o api_key

\* the file _ensure_db_exists writes when there is none
EmptyDb == [keys |-> <<>>]

_get(keys, key_hash) ==
    IF key_hash \in DOMAIN keys THEN keys[key_hash] ELSE None

\* create_key filing the record under the key itself
create_key_plain(d, user_email, credits, api_key, t) ==
    LET record == [user_email |-> user_email,
                   credits_remaining |-> credits,
                   created_at |-> isoformat(t),
                   last_used |-> NoneStr,
                   is_active |-> TRUE]
    IN  [d EXCEPT !.keys =
            [h \in DOMAIN d.keys \cup {api_key} |->
                IF h = api_key THEN record ELSE d.keys[h]]]

create_key(d, user_email, credits, api_key, t) ==
    LET key_hash == hash_key(api_key)
        record == [user_email |-> user_email,
                   credits_remaining |-> credits,
                   created_at |-> isoformat(t),
                   last_used |-> NoneStr,
                   is_active |-> TRUE]
    IN  [d EXCEPT !.keys =
            [h \in DOMAIN d.keys \cup {key_hash} |->
                IF h = key_hash THEN record ELSE d.keys[h]]]

\* validate_key without the is_active test of line 57
validate_key_any(d, api_key) ==
    LET key_data == _get(d.keys, hash_key(api_key))
    IN  IF key_data = None THEN None ELSE key_data

validate_key(d, api_key) ==
    LET key_data == _get(d.keys, hash_key(api_key))
    IN  IF key_data = None \/ ~key_data.is_active THEN None ELSE key_data

\* deduct_credits without the balance test of lines 68-69
deduct_allowed_unfunded(d, api_key, amount) ==
    LET key_data == _get(d.keys, hash_key(api_key))
    IN  ~(key_data = None \/ ~key_data.is_active)

\* deduct_credits, lines 62-69: the two refusals
deduct_allowed(d, api_key, amount) ==
    LET key_data == _get(d.keys, hash_key(api_key))
    IN  /\ ~(key_data = None \/ ~key_data.is_active)
        /\ ~(key_data.credits_remaining < amount)

\* deduct_credits, lines 71-72: the change made to the document read
deduct_apply(d, api_key, amount, t) ==
    LET key_hash == hash_key(api_key)
    IN  [d EXCEPT !.keys[key_hash].credits_remaining = @ - amount,
                  !.keys[key_hash].last_used = isoformat(t)]

\* get_credits answering in verifications instead of credits
get_credits_verifications(d, api_key) ==
    LET key_data == validate_key(d, api_key)
    IN  IF key_data # None
        THEN [value |-> key_data.credits_remaining \div 10] ELSE None

get_credits(d, api_key) ==
    LET key_data == validate_key(d, api_key)
    IN  IF key_data # None THEN [value |-> key_data.credits_remaining] ELSE None

-----------------------------------------------------------------------------
(* Payment provider: src/payment.py *)

\* stripe.checkout.Session.retrieve: the sessions the provider knows
StripeSessions ==
    <<[id |-> <<"cs_", "paid">>, payment_status |-> "paid",
       customer_details |-> [email |-> <<"payer@x">>],
       metadata |-> [credits |-> <<"2", "0">>]],
      [id |-> <<"cs_", "open">>, payment_status |-> "unpaid",
       customer_details |-> None,
       metadata |-> [credits |-> <<"2", "0">>]],
      [id |-> <<"cs_", "bare">>, payment_status |-> "paid",
       customer_details |-> None,
       metadata |-> [order |-> <<"7">>]]>>

SessionIds ==
    {StripeSessions[i].id : i \in DOMAIN StripeSessions} \cup {<<"cs_", "gone">>}

PaymentNotCompleted == [status |-> 400, detail |-> "Payment not completed"]

SessionVerificationFailed ==
    [status |-> 400, detail |-> "Session verification failed"]

\* verify_session without the payment_status test of lines 49-50
verify_session_unchecked(session_id) ==
    IF \A i \in DOMAIN StripeSessions : StripeSessions[i].id # session_id
    THEN SessionVerificationFailed
    ELSE LET session ==
                StripeSessions[CHOOSE i \in DOMAIN StripeSessions :
                                    StripeSessions[i].id = session_id]
         IN  [session_id |-> session.id,
              customer_email |->
                  IF session.customer_details # None
                  THEN session.customer_details.email ELSE NoneStr,
              credits |->
                  IF "credits" \in DOMAIN session.metadata
                  THEN int(session.metadata.credits) ELSE int(<<"0">>),
              paid |-> TRUE]

verify_session(session_id) ==
    IF \A i \in DOMAIN StripeSessions : StripeSessions[i].id # session_id
    THEN SessionVerificationFailed
    ELSE LET session ==
                StripeSessions[CHOOSE i \in DOMAIN StripeSessions :
                                    StripeSessions[i].id = session_id]
         IN  IF session.payment_status # "paid"
             THEN PaymentNotCompleted
             ELSE [session_id |-> session.id,
                   customer_email |->
                       IF session.customer_details # None
                       THEN session.customer_details.email ELSE NoneStr,
                   credits |->
                       IF "credits" \in DOMAIN session.metadata
                       THEN int(session.metadata.credits) ELSE int(<<"0">>),
                   paid |-> TRUE]

\* verify_payment_token, line 63
header_ok(authorization) ==
    /\ ~(authorization = NoneStr \/ authorization = <<>>)
    /\ startswith(authorization, <<BEARER>>)

\* verify_payment_token, line 65
bearer_key(authorization) == strip(replace(authorization, BEARER))

-----------------------------------------------------------------------------
(* Requests *)

BATCH_UNIT_COST == 10

PaymentRequired == [status |-> 402, detail |-> "Payment required"]

InvalidHeader == [status |-> 401, detail |-> "Invalid authorization header"]

InvalidApiKey == [status |-> 401, detail |-> "Invalid API key"]

Forbidden == [status |-> 403, detail |-> "Forbidden"]

Success == [status |-> 200, detail |-> "success"]

\* two accounts left in the file by an earlier run of the service, the second
\* one switched off in the file since
OldKey == generate_key("0")

OffKey == generate_key("off")

OLD_CREDITS == 2 * VERIFY_COST

OldRecord(is_active) ==
    [user_email |-> <<"old@x">>, credits_remaining |-> OLD_CREDITS,
     created_at |-> isoformat(0), last_used |-> NoneStr, is_active |-> is_active]

\* the Authorization headers a client sends
AuthHeaders ==
    {NoneStr, <<>>, OldKey, <<BEARER, "nokey">>, <<BEARER, " ">> \o OldKey,
     <<BEARER>> \o OldKey, <<BEARER>> \o OffKey}
        \cup {<<BEARER>> \o generate_key(t) : t \in RandomTokens}

AdminSecrets == {NoneStr, <<"adm">>, <<"wrong">>}

AdminCredits == {-10, 20}

Emails == {<<"e@x">>}

AllKeys == {OldKey, OffKey} \cup {generate_key(t) : t \in RandomTokens}

\* origin: who asked for an account, <<"admin">> and the X-Admin-Secret
\* presented, or the checkout session id;
\* companies: the companies of the request; verified: those whose work has run;
\* reads, writes: the _read_db and _write_db calls the request has completed
IdleProc ==
    [pc |-> "idle", op |-> "none", api_key |-> <<>>, amount |-> 0,
     ldb |-> EmptyDb, origin |-> <<>>, reads |-> 0, writes |-> 0,
     companies |-> 0, verified |-> 0, before |-> EmptyDb]

NoResponse ==
    [op |-> "none", api_key |-> <<>>, amount |-> 0, origin |-> <<>>,
     reads |-> 0, writes |-> 0, companies |-> 0, verified |-> 0,
     before |-> EmptyDb, io_error |-> FALSE, result |-> None]

\* the response to the request in slot p
Respond(p, result) ==
    [op |-> proc[p].op, api_key |-> proc[p].api_key, amount |-> proc[p].amount,
     origin |-> proc[p].origin, reads |-> proc[p].reads,
     writes |-> proc[p].writes, companies |-> proc[p].companies,
     verified |-> proc[p].verified, before |-> proc[p].before,
     io_error |-> FALSE, result |-> result]

\* worker slots are interchangeable: a request takes the first free one
Free(p) ==
    /\ served < MaxRequests
    /\ proc[p].pc = "idle"
    /\ \A q \in Procs : q < p => proc[q].pc # "idle"

\* the keys generate_key has already drawn
DrawnKeys ==
    {c.api_key : c \in created}
        \cup {proc[q].api_key : q \in {r \in Procs : proc[r].pc = "create_write"}}

\* a 256-bit draw does not repeat: the next token of the pool not yet drawn
FreshTokens ==
    {t \in RandomTokens :
        /\ generate_key(t) \notin DrawnKeys
        /\ \A i \in 1..NumTokens :
                ToString(i) = t =>
                    \A j \in 1..(i - 1) : generate_key(ToString(j)) \in DrawnKeys}

\* the responses after slot p has sent r
Sent(p, r) == [response EXCEPT ![p] = r]

\* verify_payment_token up to the end of validate_key
BeginCharge(p, authorization, amount, companies) ==
    /\ Free(p)
    /\ IF ~header_ok(authorization)
       THEN /\ response' = Sent(p, [NoResponse EXCEPT
                    !.op = "charge", !.amount = amount,
                    !.companies = companies, !.before = db,
                    !.result = PaymentRequired])
            /\ proc' = proc
       ELSE LET api_key == bearer_key(authorization)
            IN  IF validate_key(db, api_key) = None
                THEN /\ response' = Sent(p, [NoResponse EXCEPT
                            !.op = "charge", !.amount = amount,
                            !.companies = companies,
                            !.api_key = api_key, !.reads = 1, !.before = db,
                            !.result = PaymentRequired])
                     /\ proc' = proc
                ELSE /\ response' = Sent(p, NoResponse)
                     /\ proc' = [proc EXCEPT ![p] =
                            [IdleProc EXCEPT
                                !.pc = "deduct_credits", !.op = "charge",
                                !.amount = amount, !.companies = companies,
                                !.api_key = api_key,
                                !.reads = 1, !.before = db]]
    /\ served' = served + 1
    /\ UNCHANGED <<db, API_SECRET_KEY, created, debited>>

verify_company(p) ==
    \E authorization \in AuthHeaders :
        BeginCharge(p, authorization, VERIFY_COST, 1)

\* a batch charged as one verification, whatever its size
credits_needed_flat(n) == VERIFY_COST

\* the charge for a batch of n companies
credits_needed(n) == n * BATCH_UNIT_COST

verify_batch(p) ==
    \E authorization \in AuthHeaders :
        \E n \in 0..Min(MaxBatch, BATCH_MAX_ITEMS) :
            BeginCharge(p, authorization, credits_needed(n), n)

\* deduct_credits stamping last_used and writing before the balance test
deduct_credits_stamp_first(p) ==
    /\ proc[p].pc = "deduct_credits"
    /\ \E t \in Times :
        LET key_hash == hash_key(proc[p].api_key)
            key_data == _get(db.keys, key_hash)
        IN  IF key_data = None \/ ~key_data.is_active
            THEN /\ response' = Sent(p, [Respond(p, PaymentRequired) EXCEPT
                                            !.reads = @ + 1])
                 /\ proc' = [proc EXCEPT ![p] = IdleProc]
                 /\ db' = db
            ELSE IF key_data.credits_remaining < proc[p].amount
            THEN /\ response' = Sent(p, [Respond(p, PaymentRequired) EXCEPT
                                            !.reads = @ + 1])
                 /\ proc' = [proc EXCEPT ![p] = IdleProc]
                 /\ db' = [db EXCEPT !.keys[key_hash].last_used = isoformat(t)]
            ELSE /\ proc' = [proc EXCEPT
                        ![p].pc = "write_db",
                        ![p].ldb = deduct_apply(db, proc[p].api_key,
                                                proc[p].amount, t),
                        ![p].reads = @ + 1]
                 /\ UNCHANGED <<db, response>>
    /\ UNCHANGED <<API_SECRET_KEY, created, debited, served>>

\* deduct_credits from its _read_db to just before its _write_db
deduct_credits(p) ==
    /\ proc[p].pc = "deduct_credits"
    /\ IF deduct_allowed(db, proc[p].api_key, proc[p].amount)
       THEN /\ \E t \in Times :
                proc' = [proc EXCEPT
                    ![p].pc = "write_db",
                    ![p].ldb = deduct_apply(db, proc[p].api_key,
                                            proc[p].amount, t),
                    ![p].reads = @ + 1]
            /\ UNCHANGED response
       ELSE /\ response' = Sent(p, [Respond(p, PaymentRequired) EXCEPT
                                        !.reads = @ + 1])
            /\ proc' = [proc EXCEPT ![p] = IdleProc]
    /\ UNCHANGED <<db, API_SECRET_KEY, created, debited, served>>

\* deduct_credits returning True without its _write_db
write_db_unpersisted(p) ==
    /\ proc[p].pc = "write_db"
    /\ debited' = [debited EXCEPT ![hash_key(proc[p].api_key)] = @ + proc[p].amount]
    /\ proc' = [proc EXCEPT ![p].pc = "work", ![p].ldb = EmptyDb]
    /\ UNCHANGED <<db, API_SECRET_KEY, response, created, served>>

\* the _write_db of deduct_credits; verify_payment_token returns True
write_db(p) ==
    /\ proc[p].pc = "write_db"
    /\ db' = proc[p].ldb
    /\ debited' = [debited EXCEPT ![hash_key(proc[p].api_key)] = @ + proc[p].amount]
    /\ proc' = [proc EXCEPT ![p].pc = "work", ![p].ldb = EmptyDb,
                             ![p].writes = @ + 1]
    /\ UNCHANGED <<API_SECRET_KEY, response, created, served>>

\* the metered work of /verify and /verify/batch, one call of
\* verify_company_internal for each company, and the response
verify_company_internal(p) ==
    /\ proc[p].pc = "work"
    /\ response' = Sent(p, [Respond(p, Success) EXCEPT
                                !.verified = proc[p].companies])
    /\ proc' = [proc EXCEPT ![p] = IdleProc]
    /\ UNCHANGED <<db, API_SECRET_KEY, created, debited, served>>

check_credits(p) ==
    /\ Free(p)
    /\ \E authorization \in AuthHeaders :
        IF ~header_ok(authorization)
        THEN response' = Sent(p, [NoResponse EXCEPT
                !.op = "credits", !.before = db, !.result = InvalidHeader])
        ELSE LET api_key == bearer_key(authorization)
                 credits == get_credits(db, api_key)
             IN  response' = Sent(p, [NoResponse EXCEPT
                    !.op = "credits", !.api_key = api_key, !.reads = 1,
                    !.before = db,
                    !.result =
                        IF credits = None THEN InvalidApiKey
                        ELSE [status |-> 200,
                              credits_remaining |-> credits.value,
                              verifications_available |-> credits.value \div 10,
                              detail |-> IF credits.value >= 10 THEN "active"
                                         ELSE "low_credits"]])
    /\ served' = served + 1
    /\ UNCHANGED <<db, API_SECRET_KEY, proc, created, debited>>

\* create_key from its _read_db to just before its _write_db
BeginCreate(p, op, origin, user_email, credits) ==
    \E token \in FreshTokens, t \in Times :
        /\ proc' = [proc EXCEPT ![p] =
                [IdleProc EXCEPT
                    !.pc = "create_write", !.op = op, !.origin = origin,
                    !.api_key = generate_key(token), !.amount = credits,
                    !.ldb = create_key(db, user_email, credits,
                                       generate_key(token), t),
                    !.reads = 1, !.before = db]]
        /\ response' = Sent(p, NoResponse)

create_api_key(p) ==
    /\ Free(p)
    /\ \E user_email \in Emails, credits \in AdminCredits,
          admin_secret \in AdminSecrets :
        IF admin_secret # API_SECRET_KEY
        THEN /\ response' = Sent(p, [NoResponse EXCEPT
                    !.op = "admin", !.origin = <<"admin">> \o admin_secret,
                    !.before = db, !.result = Forbidden])
             /\ proc' = proc
        ELSE BeginCreate(p, "admin", <<"admin">> \o admin_secret,
                         user_email, credits)
    /\ served' = served + 1
    /\ UNCHANGED <<db, API_SECRET_KEY, created, debited>>

payment_success(p) ==
    /\ Free(p)
    /\ \E session_id \in SessionIds :
        LET payment_info == verify_session(session_id)
        IN  IF "status" \in DOMAIN payment_info
            THEN /\ response' = Sent(p, [NoResponse EXCEPT
                        !.op = "settle", !.origin = session_id,
                        !.before = db, !.result = payment_info])
                 /\ proc' = proc
            ELSE LET email == payment_info.customer_email
                     user_email ==
                        IF email = NoneStr \/ email = <<>>
                        THEN <<"user_">>
                                \o SubSeq(session_id, 1, Min(8, Len(session_id)))
                                \o <<"@stripe.customer">>
                        ELSE email
                 IN  BeginCreate(p, "settle", session_id, user_email,
                                 payment_info.credits)
    /\ served' = served + 1
    /\ UNCHANGED <<db, API_SECRET_KEY, created, debited>>

\* the _write_db of create_key, and the response carrying the secret
create_write(p) ==
    /\ proc[p].pc = "create_write"
    /\ db' = proc[p].ldb
    /\ created' = created \cup
            {[api_key |-> proc[p].api_key, credits |-> proc[p].amount,
              origin |-> proc[p].origin]}
    /\ response' = Sent(p, [Respond(p, [status |-> 200, detail |-> "success",
                                        api_key |-> proc[p].api_key,
                                        credits |-> proc[p].amount])
                                EXCEPT !.writes = @ + 1])
    /\ proc' = [proc EXCEPT ![p] = IdleProc]
    /\ UNCHANGED <<API_SECRET_KEY, debited, served>>

\* d without the account of api_key
Without(d, api_key) ==
    [keys |-> [h \in DOMAIN d.keys \ {hash_key(api_key)} |-> d.keys[h]]]

\* verify_payment_token run alone on the store d: whether the charge is granted
verify_payment_token(d, authorization, cost_in_credits) ==
    IF ~header_ok(authorization) THEN FALSE
    ELSE LET api_key == bearer_key(authorization)
         IN  IF validate_key(d, api_key) = None THEN FALSE
             ELSE deduct_allowed(d, api_key, cost_in_credits)

\* a /verify that tells the caller why it refuses
verify_response_telling(d, authorization, cost_in_credits) ==
    IF ~header_ok(authorization) THEN InvalidHeader
    ELSE IF validate_key(d, bearer_key(authorization)) = None THEN InvalidApiKey
    ELSE IF verify_payment_token(d, authorization, cost_in_credits) THEN Success
    ELSE PaymentRequired

\* what /verify and /verify/batch answer to the outcome of the gate
verify_response(d, authorization, cost_in_credits) ==
    IF verify_payment_token(d, authorization, cost_in_credits) THEN Success
    ELSE PaymentRequired

\* the costs a request can carry
Costs ==
    {VERIFY_COST} \cup {credits_needed(n) : n \in 0..Min(MaxBatch, BATCH_MAX_ITEMS)}

-----------------------------------------------------------------------------
(* Store I/O failures *)

\* the file after open(db_file, 'w') has emptied it and json.dump has not
\* finished: not a JSON document any more
TruncatedFile == [truncated |-> TRUE]

\* json.load accepts the file
Readable(file) == "keys" \in DOMAIN file

InternalServerError == [status |-> 500, detail |-> "Internal Server Error"]

PaymentProcessingFailed == [status |-> 500, detail |-> "Payment processing failed"]

\* a handler that turns every exception of the gate into a refusal
store_error_refused(op) == PaymentRequired

\* what the handler of op answers when _read_db or _write_db raises: only
\* payment_success catches it; the other handlers let it reach the framework
store_error(op) ==
    IF op = "settle" THEN PaymentProcessingFailed ELSE InternalServerError

\* the response of slot p to a request that _read_db or _write_db failed
Failed(p, r) ==
    Sent(p, [r EXCEPT !.io_error = TRUE, !.result = store_error(r.op)])

\* the _read_db of validate_key raises: the file is unreadable or truncated
validate_key_fails(p) ==
    /\ Free(p)
    /\ \E authorization \in AuthHeaders :
        \E n \in 0..Min(MaxBatch, BATCH_MAX_ITEMS) :
            /\ header_ok(authorization)
            /\ response' = Failed(p, [NoResponse EXCEPT
                    !.op = "charge", !.amount = credits_needed(n),
                    !.companies = n, !.api_key = bearer_key(authorization),
                    !.before = db])
    /\ served' = served + 1
    /\ UNCHANGED <<db, API_SECRET_KEY, proc, created, debited>>

\* the _read_db of deduct_credits raises
deduct_credits_fails(p) ==
    /\ proc[p].pc = "deduct_credits"
    /\ response' = Failed(p, Respond(p, None))
    /\ proc' = [proc EXCEPT ![p] = IdleProc]
    /\ UNCHANGED <<db, API_SECRET_KEY, created, debited, served>>

\* _write_db raises, or the worker dies, after open(db_file, 'w') has emptied
\* the file and before json.dump has written the document
write_db_fails(p) ==
    /\ proc[p].pc \in {"write_db", "create_write"}
    /\ db' = TruncatedFile
    /\ response' = Failed(p, Respond(p, None))
    /\ proc' = [proc EXCEPT ![p] = IdleProc]
    /\ UNCHANGED <<API_SECRET_KEY, created, debited, served>>

\* the _read_db of get_credits raises
get_credits_fails(p) ==
    /\ Free(p)
    /\ \E authorization \in AuthHeaders :
        /\ header_ok(authorization)
        /\ response' = Failed(p, [NoResponse EXCEPT
                !.op = "credits", !.api_key = bearer_key(authorization),
                !.before = db])
    /\ served' = served + 1
    /\ UNCHANGED <<db, API_SECRET_KEY, proc, created, debited>>

\* the _read_db of create_key raises, in create_api_key or payment_success
create_key_fails(p) ==
    /\ Free(p)
    /\ \/ \E admin_secret \in AdminSecrets :
            /\ admin_secret = API_SECRET_KEY
            /\ response' = Failed(p, [NoResponse EXCEPT
                    !.op = "admin", !.origin = <<"admin">> \o admin_secret,
                    !.before = db])
       \/ \E session_id \in SessionIds :
            /\ "status" \notin DOMAIN verify_session(session_id)
            /\ response' = Failed(p, [NoResponse EXCEPT
                    !.op = "settle", !.origin = session_id, !.before = db])
    /\ served' = served + 1
    /\ UNCHANGED <<db, API_SECRET_KEY, proc, created, debited>>

-----------------------------------------------------------------------------
(* Specifications *)

Init ==
    /\ db = [keys |-> (hash_key(OldKey) :> OldRecord(TRUE))
                        @@ (hash_key(OffKey) :> OldRecord(FALSE))]
    /\ API_SECRET_KEY \in {NoneStr, <<"adm">>}
    /\ proc = [p \in Procs |-> IdleProc]
    /\ response = [p \in Procs |-> NoResponse]
    /\ created = {[api_key |-> k, credits |-> OLD_CREDITS, origin |-> <<"file">>] :
                    k \in {OldKey, OffKey}}
    /\ debited = [h \in {hash_key(k) : k \in AllKeys} |-> 0]
    /\ served = 0

Step(p) ==
    \/ verify_company(p)
    \/ verify_batch(p)
    \/ deduct_credits(p)
    \/ write_db(p)
    \/ verify_company_internal(p)
    \/ check_credits(p)
    \/ create_api_key(p)
    \/ payment_success(p)
    \/ create_write(p)

Next == \E p \in Procs : Step(p)

Spec == Init /\ [][Next]_vars

\* one request at a time: a request runs only while no other is in flight
Alone(p) == \A q \in Procs \ {p} : proc[q].pc = "idle"

SeqNext ==
    \E p \in Procs :
        \/ Alone(p) /\ verify_company(p)
        \/ Alone(p) /\ verify_batch(p)
        \/ Alone(p) /\ deduct_credits(p)
        \/ Alone(p) /\ write_db(p)
        \/ Alone(p) /\ verify_company_internal(p)
        \/ Alone(p) /\ check_credits(p)
        \/ Alone(p) /\ create_api_key(p)
        \/ Alone(p) /\ payment_success(p)
        \/ Alone(p) /\ create_write(p)

SeqSpec == Init /\ [][SeqNext]_vars

\* only authorize-and-charge requests, any number of them at a time
ChargeNext ==
    \E p \in Procs :
        \/ verify_company(p)
        \/ verify_batch(p)
        \/ deduct_credits(p)
        \/ write_db(p)
        \/ verify_company_internal(p)

ChargeSpec == Init /\ [][ChargeNext]_vars

\* every request, with _read_db and _write_db failing at any call; a request
\* reads the file only while the file is a document
FaultNext ==
    \E p \in Procs :
        \/ Readable(db) /\ verify_company(p)
        \/ Readable(db) /\ verify_batch(p)
        \/ Readable(db) /\ deduct_credits(p)
        \/ write_db(p)
        \/ verify_company_internal(p)
        \/ Readable(db) /\ check_credits(p)
        \/ Readable(db) /\ create_api_key(p)
        \/ Readable(db) /\ payment_success(p)
        \/ create_write(p)
        \/ validate_key_fails(p)
        \/ deduct_credits_fails(p)
        \/ write_db_fails(p)
        \/ get_credits_fails(p)
        \/ create_key_fails(p)

FaultSpec == Init /\ [][FaultNext]_vars

-----------------------------------------------------------------------------
(* Properties *)

Quiescent == \A p \in Procs : proc[p].pc = "idle"

Account(d, api_key) == _get(d.keys, hash_key(api_key))

Issued == {c.api_key : c \in created}

Granted(r) == r.op = "charge" /\ r.result.status = 200

Refused(r) == r.op = "charge" /\ r.result.status = 402

PaidSessions ==
    {StripeSessions[i].id :
        i \in {j \in DOMAIN StripeSessions :
                    StripeSessions[j].payment_status = "paid"}}

UnpaidSessions ==
    {StripeSessions[i].id : i \in DOMAIN StripeSessions} \ PaidSessions

\* C1: under concurrent authorize-and-charge calls on one account the granted
\* amounts never add up to more than the balance the account started with,
\* and once all calls have returned the balance is that starting balance
\* minus the granted amounts (no lost update).
C1_ConcurrentDebitsSerialized ==
    \A c \in created :
        LET h == hash_key(c.api_key)
        IN  /\ debited[h] <= c.credits
            /\ Quiescent => db.keys[h].credits_remaining = c.credits - debited[h]

\* C2: of two simultaneous charges of cost B against an active account with
\* balance B > 0, exactly one is granted and the other refused, and the
\* balance ends at 0.
C2_ExactlyOneOfTwoWins ==
    ( /\ served = 2
      /\ Quiescent
      /\ \A p \in {1, 2} :
            /\ response[p].op = "charge"
            /\ response[p].api_key = OldKey
            /\ response[p].amount = OLD_CREDITS )
    => /\ Cardinality({p \in {1, 2} : Granted(response[p])}) = 1
       /\ Cardinality({p \in {1, 2} : Refused(response[p])}) = 1
       /\ Account(db, OldKey).credits_remaining = 0

\* C3: settlement is idempotent: no session reference ever has more than one
\* account created for it.
C3_SettleAtMostOncePerSession ==
    \A s \in SessionIds : Cardinality({c \in created : c.origin = s}) <= 1

\* C4: every balance in the store is non-negative, whatever creations
\* (administrative, with any integer credit argument, or by settlement) and
\* debits have run.
C4_BalanceNeverNegative ==
    \A h \in DOMAIN db.keys : db.keys[h].credits_remaining >= 0

\* C5: run one after another, debits are exact and all-or-nothing: every
\* balance is the initial balance minus the granted amounts, a granted debit
\* lowers the balance by exactly its amount and stamps last_used, a refused
\* one leaves the balance alone, and an amount above the balance is refused.
C5_SequentialDebitsExact ==
    /\ \A c \in created :
        LET h == hash_key(c.api_key)
        IN  /\ Quiescent =>
                /\ h \in DOMAIN db.keys
                /\ db.keys[h].credits_remaining = c.credits - debited[h]
            /\ (Quiescent /\ debited[h] > 0) => db.keys[h].last_used # NoneStr
    /\ \A p \in Procs :
        LET r == response[p]
            was == Account(r.before, r.api_key)
            is == Account(db, r.api_key)
        IN  /\ Granted(r) =>
                /\ was # None
                /\ r.amount <= was.credits_remaining
                /\ is.credits_remaining = was.credits_remaining - r.amount
                /\ is.last_used # NoneStr
            /\ (Refused(r) /\ was # None) =>
                is.credits_remaining = was.credits_remaining
            /\ (r.op = "charge" /\ was # None
                    /\ r.amount > was.credits_remaining) => Refused(r)

C5_Witness ==
    \E p \in Procs :
        /\ Granted(response[p])
        /\ response[p].amount > 0
        /\ debited[hash_key(response[p].api_key)] > response[p].amount

\* C6: a refused authorize-and-charge leaves the whole store as it was when
\* the call started, whichever of the refusals it met.
C6_RefusedLeavesStore ==
    \A p \in Procs : Refused(response[p]) => db = response[p].before

C6_Witness ==
    \E p \in Procs :
        /\ Refused(response[p])
        /\ response[p].reads = 2
        /\ Account(db, response[p].api_key).credits_remaining
                < response[p].amount
        /\ db # [keys |-> (hash_key(OldKey) :> OldRecord(TRUE))
                            @@ (hash_key(OffKey) :> OldRecord(FALSE))]

\* C7: a secret that was never issued is looked up as absent, and for an
\* issued account that is not active every charge is refused and remaining
\* answers absent, whatever the cost and the balance.
C7_UnknownAndInactiveRefused ==
    /\ \A k \in AllKeys \cup {<<"nokey">>} :
            k \notin Issued => validate_key(db, k) = None
    /\ \A p \in Procs :
        LET r == response[p]
            account == Account(db, r.api_key)
        IN  /\ (r.op \in {"charge", "credits"} /\ r.api_key \notin Issued) =>
                r.result.status # 200
            /\ (account # None /\ ~account.is_active) =>
                /\ r.op = "charge" => r.result = PaymentRequired
                /\ r.op = "credits" => r.result = InvalidApiKey

C7_Witness ==
    \E p \in Procs :
        /\ Refused(response[p])
        /\ response[p].api_key = OffKey
        /\ response[p].amount > 0
        /\ response[p].amount <= Account(db, OffKey).credits_remaining

\* C8: remaining is a read-only view of the ledger: right after a create with
\* c credits it gives c for the new secret, right after a granted charge of k
\* it gives k less than before, every answer it sends is the balance the
\* history accounts for, and asking changes nothing in the store.
C8_RemainingRoundTrip ==
    \A p \in Procs :
        LET r == response[p]
        IN  /\ (r.op \in {"admin", "settle"} /\ r.result.status = 200) =>
                get_credits(db, r.result.api_key) = [value |-> r.result.credits]
            /\ Granted(r) =>
                get_credits(db, r.api_key) =
                    [value |-> get_credits(r.before, r.api_key).value - r.amount]
            /\ r.op = "credits" => db = r.before
            /\ (r.op = "credits" /\ r.result.status = 200) =>
                \E c \in created :
                    /\ c.api_key = r.api_key
                    /\ r.result.credits_remaining =
                            c.credits - debited[hash_key(c.api_key)]

C8_Witness ==
    \E p \in Procs :
        /\ response[p].op = "credits"
        /\ response[p].result.status = 200
        /\ response[p].result.credits_remaining = OLD_CREDITS - VERIFY_COST
        /\ debited[hash_key(response[p].api_key)] = VERIFY_COST

\* C9: settling a session whose payment is not completed fails with
\* "Payment not completed", reads and writes nothing in the store, returns no
\* secret and creates no account.
C9_UnpaidSessionSettlesNothing ==
    /\ \A c \in created : c.origin \notin UnpaidSessions
    /\ \A p \in Procs :
        /\ proc[p].origin \notin UnpaidSessions
        /\ response[p].origin \in UnpaidSessions =>
            /\ response[p].result = PaymentNotCompleted
            /\ response[p].reads = 0
            /\ "api_key" \notin DOMAIN response[p].result

C9_Witness ==
    \E p \in Procs :
        /\ response[p].op = "settle"
        /\ response[p].origin \in UnpaidSessions
        /\ response[p].result = PaymentNotCompleted

\* C10: an authorize-and-charge whose secret is absent or malformed (no
\* header, empty string, or a token without the "cvapi_" prefix) is refused
\* without the store being read.
C10_MalformedSecretNoLookup ==
    \A p \in Procs :
        (response[p].op = "charge"
            /\ ~startswith(response[p].api_key, <<KEY_PREFIX>>))
        => /\ Refused(response[p])
           /\ response[p].reads = 0

\* C11: the metered work of /verify and /verify/batch comes after payment: a
\* request reaches its work only by the step that persists its own debit, the
\* document it persists holds the balance it read lowered by exactly its cost,
\* a request still being authorized or refused has verified no company and
\* written nothing, and a request that verified has written its debit once.
C11_WorkAfterPayment ==
    [][\A p \in Procs :
        /\ (proc[p].pc = "deduct_credits" /\ proc'[p].pc = "write_db") =>
            LET was == Account(db, proc[p].api_key)
                new == Account(proc'[p].ldb, proc[p].api_key)
            IN  /\ was # None
                /\ was.credits_remaining >= proc[p].amount
                /\ new.credits_remaining
                        = was.credits_remaining - proc[p].amount
        /\ (proc[p].pc # "work" /\ proc'[p].pc = "work") =>
            /\ proc[p].pc = "write_db"
            /\ db' = proc[p].ldb
            /\ proc'[p].writes = 1
            /\ proc'[p].verified = 0
        /\ proc'[p].pc \in {"deduct_credits", "write_db"} =>
            proc'[p].writes = 0 /\ proc'[p].verified = 0
        /\ LET r == response'[p]
           IN  /\ Refused(r) => r.verified = 0 /\ r.writes = 0
               /\ Granted(r) =>
                    /\ r.writes = 1
                    /\ r.verified = r.companies
                    /\ proc[p].pc = "work" \/ response[p] = r
    ]_vars

C11_Witness ==
    \E p \in Procs :
        /\ Granted(response[p])
        /\ response[p].verified = MaxBatch
        /\ response[p].writes = 1
        /\ \E q \in Procs : Refused(response[q]) /\ response[q].reads = 2

\* C12: accounts are permanent and their identity is immutable: no step of any
\* interleaving of creates, settlements and debits removes an account from the
\* store or changes its owner or its creation time; a step changes only the
\* balance, downwards, and last_used.
C12_AccountsPermanent ==
    [][\A h \in DOMAIN db.keys :
        /\ h \in DOMAIN db'.keys
        /\ db'.keys[h].user_email = db.keys[h].user_email
        /\ db'.keys[h].created_at = db.keys[h].created_at
        /\ db'.keys[h].is_active = db.keys[h].is_active
        /\ db'.keys[h].credits_remaining <= db.keys[h].credits_remaining
    ]_vars

\* C15: administrative provisioning creates an account only for a request
\* whose X-Admin-Secret is exactly the configured administrative secret: with
\* a wrong secret, without the header, or with no secret configured, no
\* account is created and the store is neither read nor written.
C15_AdminSecretGate ==
    /\ \A c \in created :
            Head(c.origin) = "admin" =>
                /\ API_SECRET_KEY # NoneStr
                /\ Tail(c.origin) = API_SECRET_KEY
    /\ \A p \in Procs :
        /\ proc[p].op = "admin" =>
                /\ API_SECRET_KEY # NoneStr
                /\ Tail(proc[p].origin) = API_SECRET_KEY
        /\ (response[p].op = "admin"
                /\ (API_SECRET_KEY = NoneStr
                        \/ Tail(response[p].origin) # API_SECRET_KEY)) =>
                /\ response[p].result = Forbidden
                /\ response[p].reads = 0
                /\ response[p].writes = 0

\* C16: every account minted by settlement starts with a positive number of
\* credits, for every paid session the payment provider can return, a session
\* whose metadata has no 'credits' entry included.
C16_SettledAccountsFunded ==
    /\ \A c \in created : c.origin \in SessionIds => c.credits > 0
    /\ \A p \in Procs : proc[p].op = "settle" => proc[p].amount > 0

\* C17: the answer to a charge does not tell an unknown secret from an
\* under-funded one: for every store the service reaches and every secret whose
\* account holds less than the cost, the same request gets the same answer
\* from that store and from the store without the account; and the answers
\* the requests of the run received are those answers.
C17_UnknownLikeUnderfunded ==
    /\ \A k \in AllKeys, cost \in Costs :
        LET account == Account(db, k)
            authorization == <<BEARER>> \o k
        IN  (account # None /\ account.credits_remaining < cost) =>
                verify_response(db, authorization, cost)
                    = verify_response(Without(db, k), authorization, cost)
    /\ \A p \in Procs :
        LET r == response[p]
        IN  (r.op = "charge" /\ r.reads > 0) =>
                r.result = verify_response(r.before, <<BEARER>> \o r.api_key,
                                           r.amount)

C17_Witness ==
    \E p \in Procs :
        LET r == response[p]
            account == Account(db, r.api_key)
        IN  /\ Refused(r)
            /\ r.reads = 2
            /\ account # None
            /\ account.is_active
            /\ account.credits_remaining < r.amount
            /\ Without(db, r.api_key) # db

\* the strings a document holds: its keys and the text fields of its records
Persisted(d) ==
    DOMAIN d.keys
        \cup {d.keys[h].user_email : h \in DOMAIN d.keys}
        \cup {d.keys[h].created_at : h \in DOMAIN d.keys}
        \cup {d.keys[h].last_used : h \in DOMAIN d.keys}

\* C18: the plaintext secret is never persisted: every key of the store, and
\* of every document about to be written, is the digest of an issued secret,
\* no key and no field is a secret, and a create hands the plaintext secret to
\* the caller while the document it writes holds the digest of that secret.
C18_OnlyDigestsPersisted ==
    /\ Persisted(db) \cap AllKeys = {}
    /\ \A h \in DOMAIN db.keys : \E k \in Issued : h = hash_key(k)
    /\ \A p \in Procs :
        /\ proc[p].pc \in {"write_db", "create_write"} =>
            /\ Persisted(proc[p].ldb) \cap AllKeys = {}
            /\ \A h \in DOMAIN proc[p].ldb.keys :
                    \E k \in Issued \cup {proc[p].api_key} : h = hash_key(k)
        /\ proc[p].pc = "create_write" =>
            hash_key(proc[p].api_key) \in DOMAIN proc[p].ldb.keys
        /\ LET r == response[p]
           IN  (r.op \in {"admin", "settle"} /\ r.result.status = 200) =>
                /\ r.result.api_key = r.api_key
                /\ startswith(r.api_key, <<KEY_PREFIX>>)
                /\ r.api_key \in Issued
                /\ r.writes = 1

C18_Witness ==
    \E p \in Procs :
        /\ response[p].op = "settle"
        /\ response[p].result.status = 200
        /\ hash_key(response[p].result.api_key) \in DOMAIN db.keys
        /\ response[p].result.api_key \notin Persisted(db)

\* C19: operations on different accounts do not interfere: under every
\* interleaving of the whole-file read-modify-write cycles, the write of a
\* request changes the file only in the account of that request; every other
\* account stays in the file exactly as it was just before the write.
C19_OtherAccountsUntouched ==
    [][db' # db =>
        \E p \in Procs :
            /\ proc[p].pc \in {"write_db", "create_write"}
            /\ proc'[p] # proc[p]
            /\ \A h \in DOMAIN db.keys \ {hash_key(proc[p].api_key)} :
                    /\ h \in DOMAIN db'.keys
                    /\ db'.keys[h] = db.keys[h]
    ]_vars

\* C20: a batch of n companies, 0 <= n <= 10, is charged as a whole: one debit
\* of exactly 10 * n before any company is verified. With a balance below
\* 10 * n the batch is refused, nothing is debited and no company is verified;
\* otherwise the balance goes down by exactly 10 * n in one write and all n
\* companies are verified. A batch is never charged for part of its companies.
C20_BatchChargedAsAWhole ==
    \A p \in Procs :
        /\ proc[p].op = "charge" =>
            /\ proc[p].companies \in 0..BATCH_MAX_ITEMS
            /\ proc[p].amount = 10 * proc[p].companies
            /\ proc[p].verified = 0
            /\ proc[p].writes = IF proc[p].pc = "work" THEN 1 ELSE 0
        /\ LET r == response[p]
               was == Account(r.before, r.api_key)
               is == Account(db, r.api_key)
           IN  (r.op = "charge" /\ was # None /\ was.is_active) =>
                /\ r.amount = 10 * r.companies
                /\ was.credits_remaining < 10 * r.companies =>
                        /\ Refused(r)
                        /\ db = r.before
                        /\ r.writes = 0
                        /\ r.verified = 0
                /\ was.credits_remaining >= 10 * r.companies =>
                        /\ Granted(r)
                        /\ is.credits_remaining
                                = was.credits_remaining - 10 * r.companies
                        /\ r.writes = 1
                        /\ r.verified = r.companies

C20_Witness ==
    \E p \in Procs :
        /\ Granted(response[p])
        /\ response[p].companies = MaxBatch
        /\ response[p].verified = MaxBatch
        /\ Account(db, response[p].api_key).credits_remaining
                = OLD_CREDITS - 10 * MaxBatch

\* C13: store writes are all-or-nothing: whatever happens during the write of
\* a create or of a debit, a failure or a crash included, the file afterwards
\* holds either the complete contents it had before the write or the complete
\* new document, never a truncated or half-written one.
C13_WritesAllOrNothing ==
    [][\A p \in Procs :
        (proc[p].pc \in {"write_db", "create_write"} /\ proc'[p] # proc[p]) =>
            db' = db \/ db' = proc[p].ldb
    ]_vars

\* C14: a store failure during authorize-and-charge is answered as a server
\* error and never as a refusal: a charge whose _read_db or _write_db failed
\* gets status 500, not the 402 of a refused charge, and does no metered
\* work; a refusal is sent only by a request whose store calls all succeeded.
C14_StoreFailureNotRefusal ==
    \A p \in Procs :
        LET r == response[p]
        IN  /\ (r.op = "charge" /\ r.io_error) =>
                /\ r.result.status = 500
                /\ r.result # PaymentRequired
                /\ ~Refused(r)
                /\ ~Granted(r)
                /\ r.verified = 0
            /\ Refused(r) => ~r.io_error

C14_Witness ==
    \E p, q \in Procs :
        /\ response[p].op = "charge"
        /\ response[p].io_error
        /\ response[p].reads = 2
        /\ db = TruncatedFile
        /\ response[q].op = "charge"
        /\ response[q].io_error
        /\ response[q].reads = 0

====
